---- MODULE Spec2Model ----
(***************************************************************************)
(* Model of the place-extract lambda: lambda_function.py (credential      *)
(* cache, S3 helpers, lambda_handler) and src/place_extractor.py          *)
(* (PlaceExtractor).  One execution environment (process) serves a bounded *)
(* number of invocations one after the other; the module-level cache      *)
(* CACHED_API_KEY survives between them.  The three external services     *)
(* (parameter store, object storage, language model) answer               *)
(* nondeterministically: each call either raises or returns a value.      *)
(*                                                                         *)
(* Python values that may be None, a str or an int are tagged records;    *)
(* dicts are records, lists are sequences.  Non-ASCII string literals of  *)
(* the source are written in ASCII.                                        *)
(***************************************************************************)
EXTENDS Integers, Sequences, FiniteSets, TLC

\* ---------------------------------------------------------------- bounds
MaxInvocations == 2
MaxTokens == 1

\* ------------------------------------------------------- python values
None == [type |-> "NoneType"]
PyStr(s) == [type |-> "str", val |-> s]
PyInt(n) == [type |-> "int", val |-> n]

\* Python truth value of None / str / int; every other object is true.
Truthy(x) ==
    IF "type" \notin DOMAIN x THEN TRUE
    ELSE CASE x.type = "NoneType" -> FALSE
           [] x.type = "str" -> x.val # ""
           [] x.type = "int" -> x.val # 0
           [] OTHER -> TRUE

\* ------------------------------------------------------------- inputs
VideoIds == {None, PyStr(""), PyStr("v1"), PyStr("v2")}
BucketNames == {None, PyStr(""), PyStr("b1")}
ModelNames == {None, PyStr("gemini-x")}
SecretValues == {PyStr(""), PyStr("k1"), PyStr("k2")}

SourceRecords ==
    { [video_info |-> [title |-> "t", description |-> "d"],
       pinned_comment |-> PyStr("pc"), processed_transcript |-> PyStr("tr")],
      [video_info |-> [title |-> "t", description |-> ""],
       pinned_comment |-> None, processed_transcript |-> None] }

\* AnalysisResult instances the model backend can hand back as `parsed`.
ParsedPayloads ==
    { [summary |-> "s0", places |-> <<>>],
      [summary |-> "s1",
       places |-> <<[place_name |-> "p", search_query |-> "p q"]>>] }

\* usage_metadata fields are Optional[int] in the client library.
TokenCounts == {None} \cup {PyInt(n) : n \in 0..MaxTokens}
UsageMetadata ==
    {None} \cup [prompt_token_count : TokenCounts,
                 candidates_token_count : TokenCounts]
Responses == [parsed : {None} \cup ParsedPayloads,
              usage_metadata : UsageMetadata]

\* ----------------------------------------------------- place_extractor
DEFAULT_MODEL_NAME == PyStr("gemini-2.5-flash-lite")
NO_TRANSCRIPT == "(no transcript)"
FALLBACK_SUMMARY == "no analysis result (safety filter or empty content)"
Omitted == [type |-> "omitted"]

\* PlaceExtractor.__init__: the default applies only to an omitted argument;
\* an explicit argument (None included) is stored as given.
PlaceExtractor_model_name(model_name) ==
    IF model_name = Omitted THEN DEFAULT_MODEL_NAME ELSE model_name

\* `x or default` on an Optional[str]
OrDefault(x, default) == IF Truthy(x) THEN x.val ELSE default

\* json.dumps as the serialised text of a value
json_dumps(data) == [json |-> data]

construct_user_content(data) ==
    json_dumps([title |-> data.video_info.title,
                description |-> data.video_info.description,
                pinned_comment |-> OrDefault(data.pinned_comment, ""),
                transcript |-> OrDefault(data.processed_transcript,
                                         NO_TRANSCRIPT)])

\* pydantic model_dump of an AnalysisResult: a dict with a list of dicts
model_dump(p) ==
    [summary |-> p.summary,
     places |-> [i \in DOMAIN p.places |->
                    [place_name |-> p.places[i].place_name,
                     search_query |-> p.places[i].search_query]]]

\* PlaceExtractor.extract on a normally returned response
extract_output(response) ==
    IF Truthy(response.parsed)
    THEN [result |-> model_dump(response.parsed),
          usage |->
            IF Truthy(response.usage_metadata)
            THEN [input_tokens |-> response.usage_metadata.prompt_token_count,
                  output_tokens |->
                      response.usage_metadata.candidates_token_count]
            ELSE [input_tokens |-> PyInt(0), output_tokens |-> PyInt(0)]]
    ELSE [summary |-> FALLBACK_SUMMARY, places |-> <<>>]

\* ----------------------------------------------------- lambda_function
SSM_PARAMETER == "/place-extractor-lambda/gemini-api-key"
source_key(vid) == vid.val \o "/source.json"
\* variant: the result is stored under the key of the source object
extracted_key_overSource(vid) == vid.val \o "/source.json"
extracted_key(vid) == vid.val \o "/extracted.json"

\* the metrics dict of lambda_handler; reading a missing key raises KeyError
metrics_raises(out) ==
    \/ "usage" \notin DOMAIN out
    \/ "result" \notin DOMAIN out

\* dict.get('places', []) then len()
places_count(out) ==
    IF "places" \in DOMAIN out.result THEN Len(out.result.places) ELSE 0

\* the LLM_METRICS log line (the wall-clock latency field is left out)
metrics_event(vid, out) ==
    [level |-> "INFO", msg |-> "LLM_METRICS",
     fields |-> json_dumps([event |-> "LLM_METRICS",
                            video_id |-> vid.val,
                            input_tokens |-> out.usage.input_tokens,
                            output_tokens |-> out.usage.output_tokens,
                            places_count |-> places_count(out)])]

\* variant: the upload is issued before the metrics dict is built
Successor_uploadFirst(step) ==
    CASE step = "download" -> "extract"
      [] step = "extract" -> "save"
      [] step = "save" -> "metrics"
      [] step = "metrics" -> "return"

\* order of the statements inside the try block of lambda_handler
Successor(step) ==
    CASE step = "download" -> "extract"
      [] step = "extract" -> "metrics"
      [] step = "metrics" -> "save"
      [] step = "save" -> "return"

VARIABLES
    CACHED_API_KEY,   \* module global, lives as long as the process
    env,              \* os.environ: S3_BUCKET_NAME, MODEL_NAME
    invocations,      \* invocations started in this process
    fetched,          \* values returned by successful get_parameter calls
    pc,               \* position of the running invocation
    video_id, bucket_name, api_key, model_name,   \* locals of lambda_handler
    source_data, response, output, saved_key,
    calls,            \* external calls issued by the running invocation
    log,              \* log records of the running invocation
    steps,            \* steps started by the running invocation, in order
    outcome           \* None while running, else the return value or raise

vars == <<CACHED_API_KEY, env, invocations, fetched, pc, video_id,
          bucket_name, api_key, model_name, source_data, response, output,
          saved_key, calls, log, steps, outcome>>

locals == <<video_id, bucket_name, api_key, model_name, source_data,
            response, output, saved_key>>

Info(msg) == [level |-> "INFO", msg |-> msg]
Error(msg) == [level |-> "ERROR", msg |-> msg]
Raised(at) == [raised |-> at]

Init ==
    /\ CACHED_API_KEY = None
    /\ env \in [S3_BUCKET_NAME : BucketNames, MODEL_NAME : ModelNames]
    /\ invocations = 0
    /\ fetched = <<>>
    /\ pc = "idle"
    /\ video_id = None /\ bucket_name = None /\ api_key = None
    /\ model_name = None /\ source_data = None /\ response = None
    /\ output = None /\ saved_key = None
    /\ calls = <<>> /\ log = <<>> /\ steps = <<>>
    /\ outcome = None

\* lambda_handler lines 71-74: a new invocation starts
Invoke ==
    /\ pc \in {"idle", "done"}
    /\ invocations < MaxInvocations
    /\ \E v \in VideoIds :
        /\ video_id' = v
        /\ log' = <<Info("Lambda invoked")>>
    /\ bucket_name' = env.S3_BUCKET_NAME
    /\ invocations' = invocations + 1
    /\ api_key' = None /\ model_name' = None /\ source_data' = None
    /\ response' = None /\ output' = None /\ saved_key' = None
    /\ calls' = <<>> /\ steps' = <<>> /\ outcome' = None
    /\ pc' = "get_api_key"
    /\ UNCHANGED <<CACHED_API_KEY, env, fetched>>

\* get_api_key lines 29-30: the cache is truthy, no external call
GetApiKeyCached ==
    /\ pc = "get_api_key"
    /\ Truthy(CACHED_API_KEY)
    /\ api_key' = CACHED_API_KEY
    /\ steps' = Append(steps, "credential")
    /\ pc' = "validate"
    /\ UNCHANGED <<CACHED_API_KEY, env, invocations, fetched, video_id,
                   bucket_name, model_name, source_data, response, output,
                   saved_key, calls, log, outcome>>

\* get_api_key lines 33-40: get_parameter returns a value
GetApiKeyFetch ==
    /\ pc = "get_api_key"
    /\ ~Truthy(CACHED_API_KEY)
    /\ \E value \in SecretValues :
        /\ CACHED_API_KEY' = value
        /\ api_key' = value
        /\ fetched' = Append(fetched, value)
    /\ calls' = Append(calls, [api |-> "ssm.get_parameter",
                               name |-> SSM_PARAMETER, ok |-> TRUE])
    /\ log' = Append(log, Info("fetching api key"))
    /\ steps' = Append(steps, "credential")
    /\ pc' = "validate"
    /\ UNCHANGED <<env, invocations, video_id, bucket_name, model_name,
                   source_data, response, output, saved_key, outcome>>

\* variant: the except clause logs and returns None instead of re-raising
GetApiKeyFail_swallow ==
    /\ pc = "get_api_key"
    /\ ~Truthy(CACHED_API_KEY)
    /\ calls' = Append(calls, [api |-> "ssm.get_parameter",
                               name |-> SSM_PARAMETER, ok |-> FALSE])
    /\ log' = log \o <<Info("fetching api key"), Error("api key fetch failed")>>
    /\ steps' = Append(steps, "credential")
    /\ api_key' = None
    /\ pc' = "validate"
    /\ UNCHANGED <<CACHED_API_KEY, env, invocations, fetched, video_id,
                   bucket_name, model_name, source_data, response, output,
                   saved_key, outcome>>

\* get_api_key lines 33-35, 41-43: get_parameter raises
GetApiKeyFail ==
    /\ pc = "get_api_key"
    /\ ~Truthy(CACHED_API_KEY)
    /\ calls' = Append(calls, [api |-> "ssm.get_parameter",
                               name |-> SSM_PARAMETER, ok |-> FALSE])
    /\ log' = log \o <<Info("fetching api key"), Error("api key fetch failed")>>
    /\ steps' = Append(steps, "credential")
    /\ outcome' = Raised("credential")
    /\ pc' = "done"
    /\ UNCHANGED <<CACHED_API_KEY, env, invocations, fetched, locals>>

\* lambda_handler lines 76-79: the check passes
ValidateOk ==
    /\ pc = "validate"
    /\ Truthy(video_id) /\ Truthy(bucket_name)
    /\ model_name' = env.MODEL_NAME
    /\ steps' = Append(steps, "validate")
    /\ pc' = "download"
    /\ UNCHANGED <<CACHED_API_KEY, env, invocations, fetched, video_id,
                   bucket_name, api_key, source_data, response, output,
                   saved_key, calls, log, outcome>>

\* lambda_handler lines 76-79: ValueError, raised outside the try block
ValidateFail ==
    /\ pc = "validate"
    /\ ~(Truthy(video_id) /\ Truthy(bucket_name))
    /\ model_name' = env.MODEL_NAME
    /\ steps' = Append(steps, "validate")
    /\ outcome' = Raised("validate")
    /\ pc' = "done"
    /\ UNCHANGED <<CACHED_API_KEY, env, invocations, fetched, video_id,
                   bucket_name, api_key, source_data, response, output,
                   saved_key, calls, log>>

\* lambda_handler lines 116-118: log the error and re-raise
Except(at, newCalls, newLog) ==
    /\ calls' = newCalls
    /\ log' = Append(newLog, Error("error while processing"))
    /\ outcome' = Raised(at)
    /\ pc' = "done"

GetObject(ok) ==
    [api |-> "s3.get_object", bucket |-> bucket_name.val,
     key |-> source_key(video_id), ok |-> ok]

\* lambda_handler lines 83-84 with get_source_data_from_s3: object returned
DownloadOk ==
    /\ pc = "download"
    /\ \E src \in SourceRecords : source_data' = src
    /\ calls' = Append(calls, GetObject(TRUE))
    /\ log' = Append(log, Info("downloading source"))
    /\ steps' = Append(steps, "download")
    /\ pc' = Successor("download")
    /\ UNCHANGED <<CACHED_API_KEY, env, invocations, fetched, video_id,
                   bucket_name, api_key, model_name, response, output,
                   saved_key, outcome>>

\* get_object, read or json.loads raises
DownloadFail ==
    /\ pc = "download"
    /\ steps' = Append(steps, "download")
    /\ Except("download", Append(calls, GetObject(FALSE)),
              Append(log, Info("downloading source")))
    /\ UNCHANGED <<CACHED_API_KEY, env, invocations, fetched, locals>>

GenerateContent(ok) ==
    [api |-> "genai.generate_content",
     model |-> PlaceExtractor_model_name(model_name),
     contents |-> construct_user_content(source_data), ok |-> ok]

\* lambda_handler lines 87-92 with PlaceExtractor.extract: normal response
ExtractOk ==
    /\ pc = "extract"
    /\ \E r \in Responses :
        /\ response' = r
        /\ output' = extract_output(r)
    /\ calls' = Append(calls, GenerateContent(TRUE))
    /\ log' = Append(log, Info("analysis start"))
    /\ steps' = Append(steps, "model")
    /\ pc' = Successor("extract")
    /\ UNCHANGED <<CACHED_API_KEY, env, invocations, fetched, video_id,
                   bucket_name, api_key, model_name, source_data, saved_key,
                   outcome>>

\* the model call raises; extract has no handler of its own
ExtractFail ==
    /\ pc = "extract"
    /\ steps' = Append(steps, "model")
    /\ Except("model", Append(calls, GenerateContent(FALSE)),
              Append(log, Info("analysis start")))
    /\ UNCHANGED <<CACHED_API_KEY, env, invocations, fetched, locals>>

\* lambda_handler lines 95-103: the metrics dict is built and logged
MetricsOk ==
    /\ pc = "metrics"
    /\ ~metrics_raises(output)
    /\ log' = Append(log, metrics_event(video_id, output))
    /\ steps' = Append(steps, "metrics")
    /\ pc' = Successor("metrics")
    /\ UNCHANGED <<CACHED_API_KEY, env, invocations, fetched, locals, calls,
                   outcome>>

\* lambda_handler lines 95-102: KeyError on the fallback record
MetricsFail ==
    /\ pc = "metrics"
    /\ metrics_raises(output)
    /\ steps' = Append(steps, "metrics")
    /\ Except("metrics", calls, log)
    /\ UNCHANGED <<CACHED_API_KEY, env, invocations, fetched, locals>>

PutObject(ok) ==
    [api |-> "s3.put_object", bucket |-> bucket_name.val,
     key |-> extracted_key(video_id), body |-> json_dumps(output),
     ok |-> ok]

\* lambda_handler lines 106-107 with save_result_to_s3: object stored
SaveOk ==
    /\ pc = "save"
    /\ saved_key' = PyStr(extracted_key(video_id))
    /\ calls' = Append(calls, PutObject(TRUE))
    /\ log' = Append(log, Info("uploading result"))
    /\ steps' = Append(steps, "upload")
    /\ pc' = Successor("save")
    /\ UNCHANGED <<CACHED_API_KEY, env, invocations, fetched, video_id,
                   bucket_name, api_key, model_name, source_data, response,
                   output, outcome>>

\* put_object raises
SaveFail ==
    /\ pc = "save"
    /\ steps' = Append(steps, "upload")
    /\ Except("upload", Append(calls, PutObject(FALSE)),
              Append(log, Info("uploading result")))
    /\ UNCHANGED <<CACHED_API_KEY, env, invocations, fetched, locals>>

\* lambda_handler lines 108-114: the success record
Return ==
    /\ pc = "return"
    /\ log' = Append(log, Info("done"))
    /\ steps' = Append(steps, "return")
    /\ outcome' = [statusCode |-> 200, video_id |-> video_id.val,
                   s3_key |-> saved_key]
    /\ pc' = "done"
    /\ UNCHANGED <<CACHED_API_KEY, env, invocations, fetched, locals, calls>>

Next ==
    \/ Invoke
    \/ GetApiKeyCached
    \/ GetApiKeyFetch
    \/ GetApiKeyFail
    \/ ValidateOk
    \/ ValidateFail
    \/ DownloadOk
    \/ DownloadFail
    \/ ExtractOk
    \/ ExtractFail
    \/ MetricsOk
    \/ MetricsFail
    \/ SaveOk
    \/ SaveFail
    \/ Return

Spec == Init /\ [][Next]_vars

\* ------------------------------------------------------------ helpers
Valid == Truthy(video_id) /\ Truthy(bucket_name)
IsRaise(o) == "raised" \in DOMAIN o
IsSuccess(o) == "statusCode" \in DOMAIN o
Finished == pc = "done"
CallsTo(api) == {i \in DOMAIN calls : calls[i].api = api}
Puts == CallsTo("s3.put_object")
Gets == CallsTo("s3.get_object")
ErrorLines == {i \in DOMAIN log : log[i].level = "ERROR"}
MetricsLines == {i \in DOMAIN log : log[i].msg = "LLM_METRICS"}
FallbackRecord == [summary |-> FALLBACK_SUMMARY, places |-> <<>>]

\* C1: an invocation whose video_id or bucket name is missing or empty
\* issues no external call at all (parameter store, object storage, model)
\* and ends by raising, whatever the credential cache holds.
C1_FailFastBeforeAnyNetworkCall ==
    (pc # "idle" /\ ~Valid) =>
        /\ calls = <<>>
        /\ Finished => IsRaise(outcome)

\* C2: within one process at most one parameter-store fetch ever succeeds,
\* and once populated the cache holds the value of that first fetch.
C2_ExactlyOneFetch ==
    /\ Len(fetched) <= 1
    /\ Len(fetched) >= 1 => CACHED_API_KEY = fetched[1]

\* C3: when the model call returned a response without a parsed payload,
\* the finished invocation did not raise at the metrics step, it issued the
\* write of exactly the fallback record to {video_id}/extracted.json, and
\* it returned the success record when that write succeeded.
C3_FallbackIsStored ==
    (Finished /\ response # None /\ response.parsed = None) =>
        /\ outcome # Raised("metrics")
        /\ \E i \in Puts :
            /\ calls[i].key = video_id.val \o "/extracted.json"
            /\ calls[i].body = json_dumps(FallbackRecord)
            /\ calls[i].ok => IsSuccess(outcome)

\* C4: the model identifier of every model call is MODEL_NAME when the
\* variable is set and the default identifier when it is not set.
C4_ModelNameDefaulted ==
    \A i \in CallsTo("genai.generate_content") :
        calls[i].model = IF env.MODEL_NAME = None
                         THEN PyStr("gemini-2.5-flash-lite")
                         ELSE env.MODEL_NAME

\* the case of C5: valid inputs, the download succeeded and the model
\* returned a parsed payload together with usage metadata
C5_Case ==
    /\ Finished /\ Valid
    /\ \E i \in Gets : calls[i].ok
    /\ response # None
    /\ response.parsed # None
    /\ response.usage_metadata # None

C5_ExpectedBody ==
    json_dumps([result |-> response.parsed,
                usage |-> [input_tokens |->
                               response.usage_metadata.prompt_token_count,
                           output_tokens |->
                               response.usage_metadata.candidates_token_count]])

C5_OneWriteOwnKeys ==
    /\ Cardinality(Puts) = 1
    /\ \A i \in Puts :
        /\ calls[i].bucket = bucket_name.val
        /\ calls[i].key = video_id.val \o "/extracted.json"
        /\ calls[i].body = C5_ExpectedBody
    /\ \A i \in Gets :
        /\ calls[i].bucket = bucket_name.val
        /\ calls[i].key = video_id.val \o "/source.json"

C5_SuccessRecord ==
    outcome = [statusCode |-> 200, video_id |-> video_id.val,
               s3_key |-> PyStr(video_id.val \o "/extracted.json")]

\* C5 as stated: in that case the handler performs exactly one write, to
\* {video_id}/extracted.json with content {result, usage}, touches no other
\* key, and returns the success record.
C5_WritesAndReturns_Original ==
    C5_Case => (C5_OneWriteOwnKeys /\ C5_SuccessRecord)

\* C5 amended: in that case the handler performs exactly one write, to
\* {video_id}/extracted.json with content {result, usage}, touches no other
\* key, and returns the success record if that write succeeded and raises
\* if it failed.
C5_WritesAndReturns ==
    C5_Case =>
        /\ C5_OneWriteOwnKeys
        /\ \A i \in Puts :
            IF calls[i].ok THEN C5_SuccessRecord
            ELSE outcome = Raised("upload")

C5_Witness ==
    /\ C5_Case
    /\ IsSuccess(outcome)
    /\ video_id = PyStr("v2")
    /\ Len(response.parsed.places) = 1

\* C6: an invocation that raised at validation, credential fetch, download,
\* model call or metrics logging issued no write; an invocation that
\* returned the success record read source.json and wrote extracted.json
\* successfully.
C6_NoPartialPersistence ==
    /\ (Finished /\ outcome \in {Raised(s) : s \in {"validate", "credential",
                                     "download", "model", "metrics"}})
            => Puts = {}
    /\ (Finished /\ IsSuccess(outcome)) =>
            /\ \E i \in Gets : calls[i].ok
            /\ \E i \in Puts : calls[i].ok

C6_Witness ==
    /\ Finished
    /\ outcome = Raised("metrics")
    /\ CallsTo("genai.generate_content") # {}

\* C7: every invocation that ended by raising has logged an error line,
\* and an invocation that returned the success record had no failed call.
C7_FailuresLoggedAndRaised ==
    /\ (Finished /\ IsRaise(outcome)) => ErrorLines # {}
    /\ (Finished /\ IsSuccess(outcome)) => \A i \in DOMAIN calls : calls[i].ok

C8_IsCount(x) == x.type = "int" /\ x.val >= 0

\* C8: what extract returns is either {result: {summary, places}, usage}
\* with places a list and both counts non-negative integers, or exactly
\* the fallback record without a usage key.
C8_OutputShape ==
    output # None =>
        \/ /\ DOMAIN output = {"result", "usage"}
           /\ DOMAIN output.result = {"summary", "places"}
           /\ output.result.places \in Seq([place_name : STRING,
                                            search_query : STRING])
           /\ DOMAIN output.usage = {"input_tokens", "output_tokens"}
           /\ C8_IsCount(output.usage.input_tokens)
           /\ C8_IsCount(output.usage.output_tokens)
        \/ output = FallbackRecord

C9_Order ==
    <<"validate", "credential", "download", "model", "metrics", "upload",
      "return">>

\* C9: the steps of an invocation start in the order validate, credential,
\* download, model, metrics, upload, return, each only after the previous
\* one succeeded, and a successful invocation has exactly one metrics line.
C9_StepsInFixedOrder ==
    /\ Len(steps) <= Len(C9_Order)
    /\ \A i \in DOMAIN steps : steps[i] = C9_Order[i]
    /\ Gets # {} => (Valid /\ api_key # None)
    /\ CallsTo("genai.generate_content") # {} => \E i \in Gets : calls[i].ok
    /\ Puts # {} => Cardinality(MetricsLines) = 1
    /\ (Finished /\ IsSuccess(outcome)) => Cardinality(MetricsLines) = 1

\* a failed get_parameter call of the running invocation
FailedFetch == \E i \in CallsTo("ssm.get_parameter") : ~calls[i].ok

\* C10: a failed parameter-store call leaves the cache as it was (empty),
\* ends the invocation by raising with no other external call, the next
\* call of get_api_key on an empty cache goes to the parameter store
\* again, and a populated cache holds the value of the last successful
\* fetch.
C10_FailedFetchLeavesCacheEmpty ==
    /\ [](FailedFetch =>
            /\ Len(calls) = 1
            /\ Finished /\ outcome = Raised("credential")
            /\ ~Truthy(CACHED_API_KEY))
    /\ [](CACHED_API_KEY # None =>
            /\ Len(fetched) >= 1
            /\ CACHED_API_KEY = fetched[Len(fetched)])
    /\ [][(FailedFetch' /\ ~FailedFetch) => CACHED_API_KEY' = CACHED_API_KEY]_vars
    /\ [][(pc = "get_api_key" /\ ~Truthy(CACHED_API_KEY) /\ pc' # pc) =>
            /\ Len(calls') = 1
            /\ calls'[1].api = "ssm.get_parameter"]_vars

\* the second invocation fetched the key after the first one failed to
C10_Witness ==
    /\ invocations = 2
    /\ Len(fetched) = 1
    /\ CallsTo("ssm.get_parameter") # {}
    /\ CACHED_API_KEY = fetched[1]
    /\ Truthy(CACHED_API_KEY)
====
